---- MODULE Spec2Model ----
\* A model of src/inference.py: pad_image, VideoReader, inference and the
\* frame loop of the __main__ block.
\*
\* Arrays are sequences: an image is a sequence of rows, a row a sequence of
\* pixels, a pixel a sequence of three channel values.  Indices are 1-based
\* here and 0-based in numpy; offsets between indices are the same.
\* A target aspect ratio is an exact fraction <<p, q>> standing for p / q.
EXTENDS Integers, Sequences, FiniteSets, TLC

VARIABLES
    image,          \* pad_image: the argument `image`
    aspect_ratio,   \* pad_image: the argument `aspect_ratio`, <<p, q>>
    padded,         \* pad_image: what the call produced, or NotCalled
    dec,            \* inference: what keypoints_from_heatmaps returned
    points,         \* inference: the returned array, or <<>> before the call
    pc,             \* __main__ / frame loop: position in the code
    input_path,     \* __main__: args.input, a sequence of characters
    fs,             \* the file system and capture device, as main finds them
    reader,         \* __main__: the object the loop iterates
    img,            \* frame loop: the loop variable
    k,              \* frame loop: the result of inference for img
    keypoints,      \* __main__: the list of results
    pulled,         \* history: the frames the loop received from next()
    err             \* the exception that ended the run, or "none"

padVars  == <<image, aspect_ratio, padded>>
infVars  == <<dec, points>>
mainVars == <<pc, input_path, fs, reader, img, k, keypoints, pulled, err>>
vars     == <<image, aspect_ratio, padded, dec, points,
              pc, input_path, fs, reader, img, k, keypoints, pulled, err>>

-----------------------------------------------------------------------------
\* Bounds of the model

MaxDim == 5        \* patterned frames have 1..MaxDim rows and columns
MaxSmall == 2      \* frames of arbitrary content, and the frames of a
                   \* source, have 1..MaxSmall rows and columns
MaxPix == 1        \* number of non-black pixel values
MaxRat == 4        \* aspect ratios p/q with p, q in 1..MaxRat
MaxFrames == 3     \* a capture delivers at most MaxFrames frames
MaxJoints == 2     \* a decoder result has 1..MaxJoints joints
MaxCoord == 2      \* decoder coordinates and confidences are in 0..MaxCoord
MaxPathLen == 5    \* args.input has 1..MaxPathLen characters

-----------------------------------------------------------------------------
\* Frames

Zero3 == <<0, 0, 0>>

Pixels == {Zero3} \cup {<<v, v + 1, v + 2>> : v \in 1..MaxPix}

Dims == 1..MaxDim

SmallDims == 1..MaxSmall

Uniform(h, w, px) == [r \in 1..h |-> [c \in 1..w |-> px]]

\* A frame whose pixel at (r, c) is <<t * r, t * c, t>>: black for t = 0,
\* and with no two pixels alike otherwise
Pattern(h, w, t) == [r \in 1..h |-> [c \in 1..w |-> <<t * r, t * c, t>>]]

\* The frames pad_image is applied to: every frame of black and one other
\* pixel value up to MaxSmall x MaxSmall, and the patterned frames
Images ==
    UNION {[1..h -> [1..w -> {Zero3, <<1, 2, 3>>}]]
           : h \in SmallDims, w \in SmallDims}
    \cup {Pattern(h, w, t) : h \in Dims, w \in Dims, t \in 0..MaxPix}

Height(a) == Len(a)

Width(a) == Len(a[1])

RECURSIVE Gcd(_, _)
Gcd(a, b) == IF b = 0 THEN a ELSE Gcd(b, a % b)

\* The target ratios p / q in lowest terms
Ratios == {pq \in (1..MaxRat) \X (1..MaxRat) : Gcd(pq[1], pq[2]) = 1}

\* The frame and ratio of the worked example: 100 rows, 200 columns, 3/4.
ExampleImage == Uniform(100, 200, <<1, 2, 3>>)

ExampleRatio == <<3, 4>>

-----------------------------------------------------------------------------
\* pad_image

\* round(x) of the quotient a / b of two positive integers: Python rounds to
\* the nearest integer, a tie to the even one.
RoundOfQuotient(a, b) ==
    LET f == a \div b
        r2 == 2 * (a % b)
    IN  IF r2 < b THEN f
        ELSE IF r2 > b THEN f + 1
        ELSE IF f % 2 = 0 THEN f ELSE f + 1

\* int(x) of the quotient a / b of two positive integers: Python's int()
\* truncates towards zero, which for a non-negative quotient is the floor.
IntOfQuotient(a, b) == a \div b

PadsHorizontallyFlipped(h, w, ar) == w * ar[2] > ar[1] * h

\* line 28: image_width / image_height < aspect_ratio, in exact arithmetic
PadsHorizontally(h, w, ar) == w * ar[2] < ar[1] * h

\* lines 30 and 38: the size the padded axis is brought to
TargetWidth(h, ar) == IntOfQuotient(ar[1] * h, ar[2])

TargetHeight(w, ar) == IntOfQuotient(w * ar[2], ar[1])

SplitPadLeadingHeavy(pad) == <<pad - (pad \div 2), pad \div 2>>

\* lines 32-33 and 40-41: <<leading, trailing>> pad of a total pad
SplitPad(pad) == <<pad \div 2, pad - (pad \div 2)>>

\* lines 28-43: the pad_width argument handed to np.pad, as
\* [top, bottom, left, right]
PadAmounts(h, w, ar) ==
    IF PadsHorizontally(h, w, ar)
    THEN LET s == SplitPad(TargetWidth(h, ar) - w)
         IN  [top |-> 0, bottom |-> 0, left |-> s[1], right |-> s[2]]
    ELSE LET s == SplitPad(TargetHeight(w, ar) - h)
         IN  [top |-> s[1], bottom |-> s[2], left |-> 0, right |-> 0]

\* np.pad with mode='edge': the border repeats the nearest pixel of a
NpPadEdge(a, pw) ==
    IF pw.top < 0 \/ pw.bottom < 0 \/ pw.left < 0 \/ pw.right < 0
    THEN [raised |-> "ValueError", value |-> <<>>]
    ELSE LET h == Height(a)
             w == Width(a)
             Clamp(i, n) == IF i < 1 THEN 1 ELSE IF i > n THEN n ELSE i
         IN  [raised |-> "none",
              value |->
                [r \in 1..(pw.top + h + pw.bottom) |->
                  [c \in 1..(pw.left + w + pw.right) |->
                    a[Clamp(r - pw.top, h)][Clamp(c - pw.left, w)]]]]

\* np.pad(image, ((top, bottom), (left, right), (0, 0)), mode='constant'):
\* constant_values defaults to 0; a negative pad amount raises ValueError.
NpPad(a, pw) ==
    IF pw.top < 0 \/ pw.bottom < 0 \/ pw.left < 0 \/ pw.right < 0
    THEN [raised |-> "ValueError", value |-> <<>>]
    ELSE LET h == Height(a)
             w == Width(a)
         IN  [raised |-> "none",
              value |->
                [r \in 1..(pw.top + h + pw.bottom) |->
                  [c \in 1..(pw.left + w + pw.right) |->
                    IF /\ r > pw.top  /\ r <= pw.top + h
                       /\ c > pw.left /\ c <= pw.left + w
                    THEN a[r - pw.top][c - pw.left]
                    ELSE Zero3]]]

\* lines 22-45
pad_image(a, ar) == NpPad(a, PadAmounts(Height(a), Width(a), ar))

NotCalled == [raised |-> "notcalled", value |-> <<>>]

-----------------------------------------------------------------------------
\* Specification of pad_image as a pure function: the arguments are drawn
\* in the initial state and the one action applies the function.

IdleMain ==
    /\ pc = "idle" /\ input_path = <<>> /\ fs = <<>> /\ reader = <<>>
    /\ img = <<>> /\ k = <<>> /\ keypoints = <<>> /\ pulled = <<>>
    /\ err = "none"

IdleInf == dec = <<>> /\ points = <<>>

IdlePad == image = <<>> /\ aspect_ratio = <<1, 1>> /\ padded = NotCalled

InitPad ==
    /\ \/ image \in Images /\ aspect_ratio \in Ratios
       \/ image = ExampleImage /\ aspect_ratio = ExampleRatio
    /\ padded = NotCalled
    /\ IdleInf
    /\ IdleMain

PadImage ==
    /\ padded = NotCalled
    /\ image # <<>>
    /\ padded' = pad_image(image, aspect_ratio)
    /\ UNCHANGED <<image, aspect_ratio, infVars, mainVars>>

NextPad == PadImage

SpecPad == InitPad /\ [][NextPad]_vars

-----------------------------------------------------------------------------
\* inference

\* line 123: data_cfg['image_size'] of the 256x192 configurations, (w, h)
ImgSize == <<192, 256>>

Reverse(s) == [i \in 1..Len(s) |-> s[Len(s) + 1 - i]]

\* lines 74-89: the arguments of the call of keypoints_from_heatmaps for a
\* frame; the model is a function of the resized frame, which stays symbolic.
DecoderCall(im, target_size) ==
    LET org_h == Height(im)
        org_w == Width(im)
    IN  [heatmaps |-> [resize |-> <<target_size[2], target_size[1]>>,
                       image |-> im],
         center |-> << <<org_w \div 2, org_h \div 2>> >>,
         scale |-> << <<org_w, org_h>> >>,
         unbiased |-> TRUE,
         use_udp |-> TRUE]

\* What keypoints_from_heatmaps returns for a call, as uninterpreted terms:
\* points of shape (1, K, 2) and prob of shape (1, K, 1); the batch axis has
\* length 1 because line 81 adds it with unsqueeze(0).
DecoderTerms(call) ==
    [points |-> << [j \in 1..MaxJoints |->
                     << [of |-> call, joint |-> j, component |-> 0],
                        [of |-> call, joint |-> j, component |-> 1] >>] >>,
     prob   |-> << [j \in 1..MaxJoints |->
                     << [of |-> call, joint |-> j, component |-> 2] >>] >>]

AssemblePointsUnflipped(d) ==
    [n \in 1..Len(d.points) |->
        [j \in 1..Len(d.points[n]) |-> d.points[n][j] \o d.prob[n][j]]]

\* line 91: np.concatenate([points[:, :, ::-1], prob], axis=2)
AssemblePoints(d) ==
    [n \in 1..Len(d.points) |->
        [j \in 1..Len(d.points[n]) |->
            Reverse(d.points[n][j]) \o d.prob[n][j]]]

\* lines 70-92, for the frame loop
inference(im, target_size) ==
    AssemblePoints(DecoderTerms(DecoderCall(im, target_size)))

\* The decoder results of the pure-function specification: numbers
DecoderResults ==
    UNION {[points : [1..1 -> [1..K -> [1..2 -> 0..MaxCoord]]],
            prob   : [1..1 -> [1..K -> [1..1 -> 0..MaxCoord]]]]
           : K \in 1..MaxJoints}

InitInfer ==
    /\ dec \in DecoderResults
    /\ points = <<>>
    /\ IdlePad
    /\ IdleMain

\* line 91 applied to a decoder result
Inference ==
    /\ dec # <<>>
    /\ points = <<>>
    /\ points' = AssemblePoints(dec)
    /\ UNCHANGED <<dec, padVars, mainVars>>

NextInfer == Inference

SpecInfer == InitInfer /\ [][NextInfer]_vars

-----------------------------------------------------------------------------
\* VideoReader and the still-image list

PathChars == {".", "m", "p", "4"}

Paths == UNION {[1..n -> PathChars] : n \in 1..MaxPathLen}

Digits == {"4"}

DigitValue(ch) == CASE ch = "4" -> 4

RECURSIVE ParseInt(_)
ParseInt(s) ==
    IF s = <<>> THEN 0
    ELSE 10 * ParseInt(SubSeq(s, 1, Len(s) - 1)) + DigitValue(s[Len(s)])

\* int(file_name) succeeds on a non-empty string of digits
IsIntLiteral(s) == s # <<>> /\ \A i \in 1..Len(s) : s[i] \in Digits

NoReader == [kind |-> "none", items |-> <<>>, file_name |-> <<>>,
             cap |-> "none", pos |-> 0]

\* lines 49-54: VideoReader(file_name)
NewVideoReader(name) ==
    [kind |-> "VideoReader", items |-> <<>>,
     file_name |-> IF IsIntLiteral(name)
                   THEN [is_int |-> TRUE, index |-> ParseInt(name),
                         text |-> <<>>]
                   ELSE [is_int |-> FALSE, index |-> 0, text |-> name],
     cap |-> "none", pos |-> 0]

\* line 142: [np.array(Image.open(input_path))]
NewList(frame) ==
    [kind |-> "list", items |-> <<frame>>, file_name |-> <<>>,
     cap |-> "none", pos |-> 0]

\* cv2.VideoCapture(file_name).isOpened(): the source delivers video
CanOpen(f) == f.content = "video"

OpenFailsIgnored(cap) == FALSE

\* line 58: not self.cap.isOpened()
OpenFails(cap) == cap # "opened"

\* cv2.cvtColor(img, cv2.COLOR_BGR2RGB): the channels in reverse order
CvtColorBGR2RGB(im) ==
    [r \in 1..Height(im) |-> [c \in 1..Width(im) |-> Reverse(im[r][c])]]

\* self.cap.read(): the next frame of an opened capture, (False, None) at
\* the end of the stream and on a capture that is not opened
CapRead(cap, frames, pos) ==
    IF cap = "opened" /\ pos < Len(frames)
    THEN [was_read |-> TRUE, img |-> frames[pos + 1], pos |-> pos + 1]
    ELSE [was_read |-> FALSE, img |-> <<>>, pos |-> pos]

VideoNextReadsTwice(rd, frames) ==
    LET r0 == CapRead(rd.cap, frames, rd.pos)
        r == CapRead(rd.cap, frames, r0.pos)
    IN  IF ~r.was_read
        THEN [stop |-> TRUE, value |-> <<>>, pos |-> r.pos]
        ELSE [stop |-> FALSE, value |-> CvtColorBGR2RGB(r.img),
              pos |-> r.pos]

\* lines 62-66: VideoReader.__next__
VideoNext(rd, frames) ==
    LET r == CapRead(rd.cap, frames, rd.pos)
    IN  IF ~r.was_read
        THEN [stop |-> TRUE, value |-> <<>>, pos |-> r.pos]
        ELSE [stop |-> FALSE, value |-> CvtColorBGR2RGB(r.img),
              pos |-> r.pos]

\* next() of the iterator of a list
ListNext(rd) ==
    IF rd.pos < Len(rd.items)
    THEN [stop |-> FALSE, value |-> rd.items[rd.pos + 1], pos |-> rd.pos + 1]
    ELSE [stop |-> TRUE, value |-> <<>>, pos |-> rd.pos]

-----------------------------------------------------------------------------
\* The __main__ block from line 121 on

\* line 139: input_path[input_path.rfind('.'):]; rfind gives the last index
\* of '.', or -1, and the slice from -1 is the last character
RFind(s, ch) ==
    LET hits == {i \in 1..Len(s) : s[i] = ch}
    IN  IF hits = {} THEN -1
        ELSE (CHOOSE i \in hits : \A j \in hits : j <= i) - 1

SliceFrom(s, start) ==
    IF start < 0
    THEN SubSeq(s, Len(s) + start + 1, Len(s))
    ELSE SubSeq(s, start + 1, Len(s))

ExtOf(path) == SliceFrom(path, RFind(path, "."))

\* line 139: ... in ['mp4']
VideoExts == {<<"m", "p", "4">>}

KeypointsInsertFront(l, x) == <<x>> \o l

\* line 151: keypoints.append(k)
KeypointsAppend(l, x) == Append(l, x)

\* line 147: the ratio handed to pad_image
MainRatio == <<3, 4>>

\* The frames a still image decodes to
StillFrames ==
    {Uniform(h, w, px) : h \in SmallDims, w \in SmallDims, px \in Pixels}

\* The frames a capture delivers: all of one size, in BGR order
Streams ==
    UNION {{[i \in 1..n |-> Uniform(h, w, px[i])] : px \in [1..n -> Pixels]}
           : h \in SmallDims, w \in SmallDims, n \in 0..MaxFrames}

\* What is behind a name: isfile is os.path.isfile, content is what the file
\* or device holds, frames is what it decodes to
Sources ==
    {[isfile |-> FALSE, content |-> "other", frames |-> <<>>]}
    \cup {[isfile |-> TRUE, content |-> "other", frames |-> <<>>]}
    \cup {[isfile |-> TRUE, content |-> "image", frames |-> <<f>>]
          : f \in StillFrames}
    \cup {[isfile |-> TRUE, content |-> "video", frames |-> s] : s \in Streams}

InitMain ==
    /\ input_path \in Paths
    /\ fs \in Sources
    /\ pc = "start"
    /\ reader = NoReader
    /\ img = <<>> /\ k = <<>> /\ keypoints = <<>> /\ pulled = <<>>
    /\ err = "none"
    /\ IdlePad
    /\ IdleInf

Raise(e) ==
    /\ pc' = "aborted"
    /\ err' = e

\* line 138: assert os.path.isfile(input_path)
CheckInput ==
    /\ pc = "start"
    /\ IF fs.isfile
       THEN pc' = "select" /\ err' = err
       ELSE Raise("AssertionError")
    /\ UNCHANGED <<input_path, fs, reader, img, k, keypoints, pulled,
                   padVars, infVars>>

\* lines 139-142 and line 145; Image.open raises on a file that is not an
\* image
SelectReader ==
    /\ pc = "select"
    /\ IF ExtOf(input_path) \in VideoExts
       THEN /\ reader' = NewVideoReader(input_path)
            /\ pc' = "for_iter" /\ err' = err
       ELSE IF fs.content = "image"
            THEN /\ reader' = NewList(fs.frames[1])
                 /\ pc' = "for_iter" /\ err' = err
            ELSE /\ reader' = reader
                 /\ Raise("UnidentifiedImageError")
    /\ keypoints' = <<>>
    /\ UNCHANGED <<input_path, fs, img, k, pulled, padVars, infVars>>

\* line 146, iter(reader): lines 56-60 for a VideoReader
ForIter ==
    /\ pc = "for_iter"
    /\ IF reader.kind = "VideoReader"
       THEN LET cap == IF CanOpen(fs) THEN "opened" ELSE "unopened"
            IN  /\ reader' = [reader EXCEPT !.cap = cap, !.pos = 0]
                /\ IF OpenFails(cap)
                   THEN Raise("IOError")
                   ELSE pc' = "for_next" /\ err' = err
       ELSE /\ reader' = [reader EXCEPT !.pos = 0]
            /\ pc' = "for_next" /\ err' = err
    /\ UNCHANGED <<input_path, fs, img, k, keypoints, pulled,
                   padVars, infVars>>

\* line 146, next(): lines 62-66 for a VideoReader; StopIteration ends the
\* loop
ForNext ==
    /\ pc = "for_next"
    /\ LET n == IF reader.kind = "VideoReader"
                THEN VideoNext(reader, fs.frames)
                ELSE ListNext(reader)
       IN  /\ reader' = [reader EXCEPT !.pos = n.pos]
           /\ IF n.stop
              THEN pc' = "done" /\ img' = img /\ pulled' = pulled
              ELSE /\ pc' = "pad"
                   /\ img' = n.value
                   /\ pulled' = Append(pulled, n.value)
    /\ UNCHANGED <<input_path, fs, k, keypoints, err, padVars, infVars>>

\* line 147: img = pad_image(img, 3 / 4)
PadStep ==
    /\ pc = "pad"
    /\ LET r == pad_image(img, MainRatio)
       IN  IF r.raised = "none"
           THEN img' = r.value /\ pc' = "infer" /\ err' = err
           ELSE img' = img /\ Raise(r.raised)
    /\ UNCHANGED <<input_path, fs, reader, k, keypoints, pulled,
                   padVars, infVars>>

\* lines 148-150: k = inference(img=img, target_size=img_size, ...)
InferStep ==
    /\ pc = "infer"
    /\ k' = inference(img, ImgSize)
    /\ pc' = "append"
    /\ UNCHANGED <<input_path, fs, reader, img, keypoints, pulled, err,
                   padVars, infVars>>

\* line 151; lines 153-170 draw and show img and assign nothing the loop
\* reads again
AppendStep ==
    /\ pc = "append"
    /\ keypoints' = KeypointsAppend(keypoints, k)
    /\ pc' = "for_next"
    /\ UNCHANGED <<input_path, fs, reader, img, k, pulled, err,
                   padVars, infVars>>

Next ==
    \/ CheckInput
    \/ SelectReader
    \/ ForIter
    \/ ForNext
    \/ PadStep
    \/ InferStep
    \/ AppendStep

Spec == InitMain /\ [][Next]_vars

-----------------------------------------------------------------------------
\* The frame loop of lines 145-151 over a reader as line 140 or line 142
\* constructs it

ReaderNames == {<<"4">>, <<".", "m", "p", "4">>}

InitReader ==
    /\ \/ /\ input_path \in ReaderNames
          /\ reader = NewVideoReader(input_path)
          /\ fs \in {f \in Sources : f.isfile /\ f.content # "image"}
       \/ /\ input_path = <<"m", ".", "p">>
          /\ fs \in {f \in Sources : f.content = "image"}
          /\ reader = NewList(fs.frames[1])
    /\ pc = "for_iter"
    /\ img = <<>> /\ k = <<>> /\ keypoints = <<>> /\ pulled = <<>>
    /\ err = "none"
    /\ IdlePad
    /\ IdleInf

NextReader ==
    \/ ForIter
    \/ ForNext
    \/ PadStep
    \/ InferStep
    \/ AppendStep

SpecReader == InitReader /\ [][NextReader]_vars

-----------------------------------------------------------------------------
\* Properties of pad_image

PadReturned == padded.raised = "none"

PadCalled == padded # NotCalled

InH == Height(image)

InW == Width(image)

OutH == Height(padded.value)

OutW == Width(padded.value)

Horizontal == InW * aspect_ratio[2] < aspect_ratio[1] * InH

\* C1: pad_image returns a frame that is at least as high and as wide as its
\* argument (no pad amount is negative, so the call does not raise), and the
\* padded axis differs from the exact value ar * h, resp. w / ar, by less than
\* one pixel while the other axis is the argument's.
C1_PaddingRatio ==
    PadCalled =>
        /\ PadReturned
        /\ OutH >= InH
        /\ OutW >= InW
        /\ LET p == aspect_ratio[1]
               q == aspect_ratio[2]
           IN  IF Horizontal
               THEN /\ OutH = InH
                    /\ OutW * q - p * InH < q
                    /\ p * InH - OutW * q < q
               ELSE /\ OutW = InW
                    /\ OutH * p - InW * q < p
                    /\ InW * q - OutH * p < p

\* A call that widened the frame to a target that is not a whole number
C1_Witness ==
    /\ PadReturned
    /\ OutW > InW + 1
    /\ (aspect_ratio[1] * InH) % aspect_ratio[2] # 0

\* C2: every pixel of the argument is found unchanged at (r + top, c + left)
\* of the result, and every other pixel of the result is zero.
C2_ContentPreserved ==
    PadCalled =>
        /\ PadReturned
        /\ LET pa == PadAmounts(InH, InW, aspect_ratio)
           IN  /\ \A r \in 1..InH : \A c \in 1..InW :
                     /\ r + pa.top \in 1..OutH
                     /\ c + pa.left \in 1..OutW
                     /\ padded.value[r + pa.top][c + pa.left] = image[r][c]
               /\ \A r \in 1..OutH : \A c \in 1..OutW :
                     \/ /\ r - pa.top \in 1..InH
                        /\ c - pa.left \in 1..InW
                     \/ padded.value[r][c] = Zero3

\* A call that put rows of border above and below a frame of at least
\* 2 x 2 pixels whose corner pixels differ
C2_Witness ==
    /\ PadReturned
    /\ InH >= 2
    /\ InW >= 2
    /\ OutH >= InH + 2
    /\ image[1][1] # Zero3
    /\ image[InH][1] # image[1][1]
    /\ image[1][InW] # image[1][1]
    /\ padded.value[1][1] = Zero3
    /\ padded.value[OutH][1] = Zero3

\* C8 as stated: the padded dimension is round(ar * height), resp.
\* round(width / ar).
C8_RoundsToNearest ==
    PadCalled =>
        /\ PadReturned
        /\ IF Horizontal
           THEN OutW = RoundOfQuotient(aspect_ratio[1] * InH, aspect_ratio[2])
           ELSE OutH = RoundOfQuotient(InW * aspect_ratio[2], aspect_ratio[1])

\* C8 as amended: the padded dimension is the exact value rounded down,
\* floor(ar * height) when width / height < ar and floor(width / ar)
\* otherwise, also when the fractional part is 0.5 or more.
C8_Truncates ==
    PadCalled =>
        /\ PadReturned
        /\ LET p == aspect_ratio[1]
               q == aspect_ratio[2]
           IN  IF Horizontal
               THEN /\ OutW * q <= p * InH
                    /\ p * InH < (OutW + 1) * q
               ELSE /\ OutH * p <= InW * q
                    /\ InW * q < (OutH + 1) * p

\* A call whose exact target has a fractional part of 0.5 or more
C8_Witness ==
    /\ PadReturned
    /\ ~Horizontal
    /\ 2 * ((InW * aspect_ratio[2]) % aspect_ratio[1]) >= aspect_ratio[1]
    /\ OutH > InH

\* C9: only the axis chosen by the comparison is padded, the total pad is
\* split as leading = pad // 2 and trailing = pad - leading, and so the
\* trailing side gets the extra pixel of an odd pad; the 100 x 200 frame at
\* ratio 3/4 becomes 266 x 200 with the original at rows [83, 183).
C9_OneAxisSplit ==
    PadCalled =>
        /\ PadReturned
        /\ LET pa == PadAmounts(InH, InW, aspect_ratio)
           IN  /\ IF Horizontal
                  THEN /\ OutH = InH
                       /\ pa.top = 0 /\ pa.bottom = 0
                       /\ pa.left = (OutW - InW) \div 2
                       /\ pa.right = (OutW - InW) - pa.left
                  ELSE /\ OutW = InW
                       /\ pa.left = 0 /\ pa.right = 0
                       /\ pa.top = (OutH - InH) \div 2
                       /\ pa.bottom = (OutH - InH) - pa.top
               /\ pa.right - pa.left \in {0, 1}
               /\ pa.bottom - pa.top \in {0, 1}
               /\ (image = ExampleImage /\ aspect_ratio = ExampleRatio) =>
                     /\ OutH = 266 /\ OutW = 200
                     /\ pa.top = 83 /\ pa.bottom = 83
                     /\ \A r \in 1..OutH :
                          padded.value[r] =
                              IF r \in 84..183
                              THEN image[r - 83]
                              ELSE [c \in 1..200 |-> Zero3]

\* A call with an odd total pad, which puts one more row below than above
C9_Witness ==
    /\ PadReturned
    /\ ~Horizontal
    /\ (OutH - InH) % 2 = 1
    /\ OutH - InH >= 3
    /\ padded.value[OutH - ((OutH - InH) \div 2)][1] = Zero3

-----------------------------------------------------------------------------
\* Properties of inference

InferenceReturned == points # <<>>

-----------------------------------------------------------------------------
\* Properties of the frame loop

IsVideo == reader.kind = "VideoReader"

IsList == reader.kind = "list"

\* The frames of the source in the order and form the reader yields them
Expected ==
    IF IsVideo
    THEN [i \in 1..Len(fs.frames) |-> CvtColorBGR2RGB(fs.frames[i])]
    ELSE fs.frames

\* C3: a reader iterated to exhaustion has yielded the frames of its source,
\* all of them and in order (one frame for a still image), and the loop ends
\* without an exception; until then what it has yielded is a prefix of them.
C3_Cardinality ==
    /\ (IsVideo /\ CanOpen(fs)) \/ IsList => err = "none" /\ pc # "aborted"
    /\ Len(pulled) <= Len(Expected)
    /\ pulled = SubSeq(Expected, 1, Len(pulled))
    /\ pc = "done" =>
        /\ err = "none"
        /\ pulled = Expected
        /\ IsList => Len(pulled) = 1

\* A capture of three frames, the first two different, read to its end
C3_Witness ==
    /\ IsVideo
    /\ pc = "done"
    /\ Len(pulled) = 3
    /\ pulled[1] # pulled[2]
    /\ pulled[1] # fs.frames[1]

\* C4: when the loop has ended, normally or with an exception, the capture
\* of the VideoReader is not left opened.
C4_CapReleased ==
    (IsVideo /\ pc \in {"done", "aborted"}) => reader.cap # "opened"

\* C5: a VideoReader whose source cannot be opened raises IOError from
\* iter(), the run is over, and no frame was yielded, padded, inferred or
\* appended.
C5_OpenFailureAborts ==
    (IsVideo /\ ~CanOpen(fs) /\ pc # "for_iter") =>
        /\ pc = "aborted"
        /\ err = "IOError"
        /\ pulled = <<>>
        /\ img = <<>>
        /\ k = <<>>
        /\ keypoints = <<>>
        /\ ~ENABLED NextReader

\* A run that ended in IOError on a device index
C5_Witness ==
    /\ IsVideo
    /\ reader.file_name.is_int
    /\ reader.cap = "unopened"
    /\ pc = "aborted"
    /\ err = "IOError"

\* The result the loop body computes for a frame the reader yielded
ResultOf(frame) == inference(pad_image(frame, MainRatio).value, ImgSize)

\* C6: a frame is requested only when every earlier frame has its result
\* appended, while a frame is processed it is the only one without a result,
\* and entry i of the result list is the result of the i-th frame yielded.
C6_OrderPreserving ==
    /\ pc \in {"for_next", "done"} => Len(keypoints) = Len(pulled)
    /\ pc \in {"pad", "infer", "append"} => Len(pulled) = Len(keypoints) + 1
    /\ Len(keypoints) <= Len(pulled)
    /\ \A i \in 1..Len(keypoints) : keypoints[i] = ResultOf(pulled[i])

\* Three frames processed, the results of the first two different
C6_Witness ==
    /\ IsVideo
    /\ pc = "for_next"
    /\ Len(keypoints) = 3
    /\ pulled[1] # pulled[2]
    /\ keypoints[1] # keypoints[2]

-----------------------------------------------------------------------------
\* Properties of the __main__ block

\* The path ends in ".mp4"
HasMp4Ext(path) ==
    /\ Len(path) >= 4
    /\ SubSeq(path, Len(path) - 3, Len(path)) = <<".", "m", "p", "4">>

\* C10: once the reader is chosen, an existing path with extension mp4 is
\* read through a VideoReader and any other existing file through a list of
\* one frame.
C10_SourceByKind ==
    (fs.isfile /\ pc \notin {"start", "select"}) =>
        IF HasMp4Ext(input_path)
        THEN reader.kind = "VideoReader"
        ELSE reader.kind = "list" => Len(reader.items) = 1

====
